---------------------------- MODULE Spec2Model ----------------------------
(***************************************************************************)
(* A model of src/src/demodulator/doqpsk.c: the sync locator (Find_Sync),  *)
(* the stream resynchronizer (Resync_Stream), the convolutional            *)
(* de-interleaver (De_Interleave), the integer square-root table (Isqrt)   *)
(* and the differential decoder (De_Diffcode).                             *)
(*                                                                         *)
(* Buffers are functions over 0-based indices, as in the C code.  Four     *)
(* specifications share the variables:                                     *)
(*   Spec       De_Interleave: Resync_Stream step by step, then the        *)
(*              de-interleave loop, on generated raw buffers;              *)
(*   SpecIntlv  the body of the de-interleave loop at the real interleaver *)
(*              geometry, over windows of destination indices;             *)
(*   SpecIsqrt  Isqrt on every argument the table covers;                  *)
(*   SpecDiff   sequences of De_Diffcode calls over one logical stream.    *)
(***************************************************************************)
EXTENDS Integers, Sequences, FiniteSets

VARIABLES
    \* ---- Resync_Stream / De_Interleave
    raw_buf,      \* the caller's buffer `raw` (compacted in place)
    src_buf,      \* the private copy taken at entry
    raw_siz,      \* its length
    oob,          \* what the memory past the end of src_buf holds
    posn,         \* the read cursor
    offset,       \* Find_Sync's *offset
    sync,         \* Find_Sync's *sync
    resync_siz,   \* *resync_siz, the write cursor
    pc,           \* position in De_Interleave / Resync_Stream
    rd_lo, rd_hi, \* lowest / highest index of src_buf read by the last step
    wr_lo, wr_hi, \* lowest / highest index of raw_buf written by the last step
    cp_src,       \* cursor of the frame copied by the last step (-1: none)
    copied,       \* cursors of the frames copied so far, in the order copied
    nosync,       \* cursors at which Find_Sync has failed so far, in order
    last,         \* the step taken last
    resync,       \* the caller's *resync: allocated length (-1: none), cells
    dil_rd_hi,    \* highest index of raw read by the de-interleave loop
    \* ---- de-interleave loop body at full geometry
    il_n,         \* *resync_siz
    il_len,       \* length of the buffer allocated for *resync (-1: none)
    il_i,         \* resync_buf_idx
    il_src,       \* raw_buf_idx computed by the last iteration (-1: none yet)
    il_dst,       \* destination written by the last iteration (-1: none)
    il_val,       \* value written by the last iteration (-1: none)
    il_rd,        \* index of raw read by the last iteration (-1: none)
    il_left,      \* iterations left in the window
    \* ---- Isqrt
    sq_a,         \* argument
    sq_r,         \* result
    sq_pc,
    \* ---- De_Diffcode
    dd_stream,    \* the logical stream of raw soft symbols
    dd_pos,       \* symbols of the stream handed to De_Diffcode so far
    dd_out,       \* the decoded buffers of the calls so far, concatenated
    dd_calls,     \* number of calls made on this stream
    dd_start,     \* <<prev_i, prev_q>> when the stream began
    dd_fresh,     \* TRUE iff no call was ever made before this stream
    dd_maxidx,    \* highest isqrt_table index read so far
    prev_i, prev_q \* the static carried state

rsVars == <<raw_buf, src_buf, raw_siz, oob, posn, offset, sync, resync_siz, pc,
            rd_lo, rd_hi, wr_lo, wr_hi, cp_src, copied, nosync, last, resync,
            dil_rd_hi>>
ilVars == <<il_n, il_len, il_i, il_src, il_dst, il_val, il_rd, il_left>>
sqVars == <<sq_a, sq_r, sq_pc>>
ddVars == <<dd_stream, dd_pos, dd_out, dd_calls, dd_start, dd_fresh, dd_maxidx,
            prev_i, prev_q>>
vars == <<rsVars, ilVars, sqVars, ddVars>>

----------------------------------------------------------------------------
(* Program constants.                                                      *)

INTLV_BRANCHES == 36
INTLV_DELAY == 2048
INTLV_BASE_LEN == 73728
INTLV_MESG_LEN == 2654208
INTLV_DATA_LEN == 72
INTLV_SYNCDATA == 80
SYNCD_DEPTH == 4
SYNCD_BUF_MARGIN == 320
SYNCD_BLOCK_SIZ == 400
SYNCD_BUF_STEP == 240
SYNC_BYTE_BITS == 8
SOFT_THRESHOLD == 128
LOOKAHEAD == 128
SYNC_WORD == 39
ISQRT_MAX == 16384

----------------------------------------------------------------------------
(* Bounds of the model.                                                    *)

MaxFrames == 9
MaxSeed == 0
Window == 40
MaxPairs == 3

----------------------------------------------------------------------------
(* Generic helpers.                                                        *)

Pow2(i) == 2 ^ i

Bit(b, i) == (b \div Pow2(i)) % 2

Max(a, b) == IF a >= b THEN a ELSE b

ToUint8(x) == x % 256

ToInt8(x) == ((x + 128) % 256) - 128

----------------------------------------------------------------------------
(* Raw buffers the model runs on: `lead` symbols of noise, then frames of  *)
(* an 8-symbol header and 72 data symbols, cut after `tail` symbols of the *)
(* frame that follows the last whole one.  The headers of the frames in    *)
(* `bad` carry the complemented sync word (a corrupted header).            *)

Leads == {0, 3, 100}

Tails == {0, 1, 47}

OobKinds == {"low", "stale"}

SoftSym(bit) == IF bit = 1 THEN 0 ELSE 255

NoiseSym(p, seed) == (97 * p + 101 * seed + 31) % 256

DataSym(k, r, seed) == (53 * k + 29 * r + 101 * seed + 17) % 256

HeaderByte(k, bad) == IF k \in bad THEN 255 - SYNC_WORD ELSE SYNC_WORD

GenSym(lead, bad, seed, p) ==
    IF p < lead
    THEN NoiseSym(p, seed)
    ELSE LET k == (p - lead) \div INTLV_SYNCDATA
             r == (p - lead) % INTLV_SYNCDATA
         IN  IF r < SYNC_BYTE_BITS
             THEN SoftSym(Bit(HeaderByte(k, bad), r))
             ELSE DataSym(k, r, seed)

GenBuf(lead, n, tail, bad, seed) ==
    [p \in 0 .. (lead + INTLV_SYNCDATA * n + tail - 1) |-> GenSym(lead, bad, seed, p)]

----------------------------------------------------------------------------
(* Byte_at_Offset, Find_Sync.                                              *)

\* What a read of src_buf[p] yields.  src_buf holds raw_siz bytes; a read
\* past its end is undefined behaviour and yields whatever the heap holds
\* there: low soft values, or stale content of the stream.
SrcAt(p) ==
    IF p < raw_siz
    THEN src_buf[p]
    ELSE IF oob = "low" THEN 0 ELSE src_buf[p - SYNCD_BUF_MARGIN]

HardBit(p) == IF SrcAt(p) < SOFT_THRESHOLD THEN 1 ELSE 0

\* Byte_at_Offset(&src_buf[p])
Byte_at_Offset(p) ==
    HardBit(p) + 2 * HardBit(p + 1) + 4 * HardBit(p + 2) + 8 * HardBit(p + 3)
    + 16 * HardBit(p + 4) + 32 * HardBit(p + 5) + 64 * HardBit(p + 6)
    + 128 * HardBit(p + 7)

\* FirstMismatch with the inner loop stopping one confirmation short.
RECURSIVE FirstMismatchShort(_, _, _, _, _, _)
FirstMismatchShort(data, i, step, depth, cand, j) ==
    IF j >= depth THEN depth + 1
    ELSE IF Byte_at_Offset(data + i + j * step) # cand THEN j
    ELSE FirstMismatchShort(data, i, step, depth, cand, j + 1)

\* The inner loop of Find_Sync (lines 116-123) for candidate i, from j on:
\* the first j in 1..depth whose byte differs from the candidate's, or
\* depth + 1 when none does.
RECURSIVE FirstMismatch(_, _, _, _, _, _)
FirstMismatch(data, i, step, depth, cand, j) ==
    IF j > depth THEN depth + 1
    ELSE IF Byte_at_Offset(data + i + j * step) # cand THEN j
    ELSE FirstMismatch(data, i, step, depth, cand, j + 1)

MinOf(S) == CHOOSE x \in S : \A y \in S : x <= y

MaxOf(S) == CHOOSE x \in S : \A y \in S : y <= x

\* The outer loop of Find_Sync (lines 107-132), given as `tried` the pairs
\* <<i, outcome of the inner loop for candidate i>> for every i below limit:
\* it stops at the first candidate whose inner loop ran through, having
\* read, for each candidate tried, its own byte and the bytes up to the
\* first mismatch.  On failure *offset is 0 and *sync the last candidate.
FindSyncScan(data, limit, step, depth, tried) ==
    LET hits  == {t[1] : t \in {u \in tried : u[2] > depth}}
        first == IF hits = {} THEN limit - 1 ELSE MinOf(hits)
    IN  [result |-> hits # {},
         offset |-> IF hits = {} THEN 0 ELSE first,
         sync   |-> IF limit > 0 THEN Byte_at_Offset(data + first) ELSE sync,
         rd_hi  |-> IF limit > 0
                    THEN MaxOf({data + t[1] + (IF t[2] > depth THEN depth ELSE t[2]) * step
                                + SYNC_BYTE_BITS - 1 : t \in {u \in tried : u[1] <= first}})
                    ELSE -1]

\* Find_Sync(&src_buf[data], block_siz, step, depth, &offset, &sync): the
\* returned flag, *offset, *sync, and the highest index it read.
Find_Sync(data, block_siz, step, depth) ==
    FindSyncScan(data, block_siz - step * depth, step, depth,
        {<<i, FirstMismatch(data, i, step, depth, Byte_at_Offset(data + i), 1)>> :
            i \in 0 .. block_siz - step * depth - 1})

----------------------------------------------------------------------------
(* Resync_Stream, one loop iteration per action.                           *)

\* limit1 leaving room for a whole search block.
limit1FullBlock == raw_siz - SYNCD_BLOCK_SIZ

limit1 == raw_siz - SYNCD_BUF_MARGIN

\* limit2 with the frame margin left out.
limit2NoMargin == raw_siz

\* limit2 with the margin's sign slipped.
limit2SignSlip == raw_siz + INTLV_SYNCDATA

limit2 == raw_siz - INTLV_SYNCDATA

\* The caller's *resync before any allocation.
NullBuf == [len |-> -1, cells |-> <<>>]

IdleIntlv ==
    /\ il_n = 0 /\ il_len = -1 /\ il_i = 0 /\ il_src = -1 /\ il_dst = -1
    /\ il_val = -1 /\ il_rd = -1 /\ il_left = 0

IdleIsqrt == sq_a = 0 /\ sq_r = 0 /\ sq_pc = "idle"

IdleDiff ==
    /\ dd_stream = <<>> /\ dd_pos = 0 /\ dd_out = <<>> /\ dd_calls = 0
    /\ dd_start = <<0, 0>> /\ dd_fresh = TRUE /\ dd_maxidx = 0
    /\ prev_i = 0 /\ prev_q = 0

IdleResync ==
    /\ raw_buf = <<>> /\ src_buf = <<>> /\ raw_siz = 0 /\ oob = "low"
    /\ posn = 0 /\ offset = 0 /\ sync = 0 /\ resync_siz = 0 /\ pc = "idle"
    /\ rd_lo = -1 /\ rd_hi = -1 /\ wr_lo = -1 /\ wr_hi = -1 /\ cp_src = -1
    /\ copied = <<>> /\ nosync = <<>>
    /\ last = "idle"
    /\ resync = NullBuf /\ dil_rd_hi = -1

\* De_Interleave(raw, raw_siz, &resync, &resync_siz) has called
\* Resync_Stream, which has taken its private copy and zeroed *resync_siz.
Init ==
    /\ \E n \in 0 .. MaxFrames, lead \in Leads, tail \in Tails, seed \in 0 .. MaxSeed :
       \E lo \in 0 .. n, hi \in 0 .. n :
          /\ lo <= hi
          /\ (lo = hi) => (lo = 0)
          /\ raw_buf = GenBuf(lead, n, tail, lo .. hi - 1, seed)
          /\ raw_siz = lead + INTLV_SYNCDATA * n + tail
    /\ src_buf = raw_buf
    /\ oob \in OobKinds
    /\ posn = 0 /\ offset = 0 /\ sync = 0 /\ resync_siz = 0
    /\ pc = "acquire"
    /\ rd_lo = -1 /\ rd_hi = -1 /\ wr_lo = -1 /\ wr_hi = -1 /\ cp_src = -1
    /\ copied = <<>> /\ nosync = <<>>
    /\ last = "enter"
    /\ resync = NullBuf /\ dil_rd_hi = -1
    /\ IdleIntlv /\ IdleIsqrt /\ IdleDiff

\* AcquireWith setting the cursor to *offset instead of advancing it.
AcquireWithAbsolute(fs) ==
    /\ offset' = fs.offset
    /\ sync' = fs.sync
    /\ rd_lo' = posn
    /\ rd_hi' = fs.rd_hi
    /\ posn' = IF fs.result THEN fs.offset ELSE posn + SYNCD_BUF_STEP
    /\ pc' = IF fs.result THEN "track" ELSE "acquire"
    /\ last' = IF fs.result THEN "found" ELSE "notfound"
    /\ nosync' = IF fs.result THEN nosync ELSE Append(nosync, posn)

\* AcquireWith moving the cursor by *offset whatever Find_Sync returned.
AcquireWithOffsetOnly(fs) ==
    /\ offset' = fs.offset
    /\ sync' = fs.sync
    /\ rd_lo' = posn
    /\ rd_hi' = fs.rd_hi
    /\ posn' = posn + fs.offset
    /\ pc' = IF fs.result THEN "track" ELSE "acquire"
    /\ last' = IF fs.result THEN "found" ELSE "notfound"
    /\ nosync' = IF fs.result THEN nosync ELSE Append(nosync, posn)

\* Lines 160-168 with Find_Sync's outcome fs: on success the cursor moves to
\* the sync word found and tracking starts; on failure the cursor moves on
\* by SYNCD_BUF_STEP and the outer loop continues.
AcquireWith(fs) ==
    /\ offset' = fs.offset
    /\ sync' = fs.sync
    /\ rd_lo' = posn
    /\ rd_hi' = fs.rd_hi
    /\ posn' = IF fs.result THEN posn + fs.offset ELSE posn + SYNCD_BUF_STEP
    /\ pc' = IF fs.result THEN "track" ELSE "acquire"
    /\ last' = IF fs.result THEN "found" ELSE "notfound"
    /\ nosync' = IF fs.result THEN nosync ELSE Append(nosync, posn)

\* One pass of the outer loop's head (lines 160-168).
Acquire ==
    /\ pc = "acquire"
    /\ posn < limit1
    /\ AcquireWith(Find_Sync(posn, SYNCD_BLOCK_SIZ, INTLV_SYNCDATA, SYNCD_DEPTH))
    /\ wr_lo' = -1 /\ wr_hi' = -1 /\ cp_src' = -1
    /\ UNCHANGED <<raw_buf, src_buf, raw_siz, oob, resync_siz, copied, resync,
                   dil_rd_hi>>
    /\ UNCHANGED <<ilVars, sqVars, ddVars>>

\* LookAhead testing tmp against the end of the buffer, not limit2.
LookAheadToEnd ==
    {i \in 0 .. LOOKAHEAD - 1 :
        /\ posn + i * INTLV_SYNCDATA + SYNC_BYTE_BITS <= raw_siz
        /\ Byte_at_Offset(posn + i * INTLV_SYNCDATA) = sync}

\* The look-ahead of lines 174-187 at the cursor: the set of i whose byte at
\* posn + i * INTLV_SYNCDATA, below limit2, equals the acquired sync value.
LookAhead ==
    {i \in 0 .. LOOKAHEAD - 1 :
        /\ posn + i * INTLV_SYNCDATA < limit2
        /\ Byte_at_Offset(posn + i * INTLV_SYNCDATA) = sync}

\* The bytes the look-ahead read: every i below limit2 up to the first hit.
LookAheadReadHi ==
    LET inb  == {i \in 0 .. LOOKAHEAD - 1 : posn + i * INTLV_SYNCDATA < limit2}
        hits == LookAhead
        upto == IF hits = {} THEN inb
                ELSE {i \in inb : \A h \in hits : i <= h}
        top  == CHOOSE i \in upto : \A k \in upto : k <= i
    IN  posn + top * INTLV_SYNCDATA + SYNC_BYTE_BITS - 1

\* The memcpy of line 194: raw_buf[*resync_siz ..] = src_buf[posn + 8 ..].
CopyFrame(buf, dst, src) ==
    [p \in DOMAIN buf |->
        IF dst <= p /\ p < dst + INTLV_DATA_LEN
        THEN SrcAt(src + SYNC_BYTE_BITS + (p - dst))
        ELSE buf[p]]

\* Lines 172-198, a sync byte is found ahead: the frame at the cursor is
\* copied and the cursor advances one frame period.
Track ==
    /\ pc = "track"
    /\ posn < limit2
    /\ LookAhead # {}
    /\ raw_buf' = CopyFrame(raw_buf, resync_siz, posn)
    /\ wr_lo' = resync_siz
    /\ wr_hi' = resync_siz + INTLV_DATA_LEN - 1
    /\ rd_lo' = posn
    /\ rd_hi' = Max(LookAheadReadHi, posn + INTLV_SYNCDATA - 1)
    /\ cp_src' = posn
    /\ copied' = Append(copied, posn)
    /\ last' = "copy"
    /\ resync_siz' = resync_siz + INTLV_DATA_LEN
    /\ posn' = posn + INTLV_SYNCDATA
    /\ pc' = "track"
    /\ UNCHANGED <<src_buf, raw_siz, oob, offset, sync, nosync, resync, dil_rd_hi>>
    /\ UNCHANGED <<ilVars, sqVars, ddVars>>

\* Lines 172-190, no sync byte ahead: tracking breaks to the outer loop.
TrackLost ==
    /\ pc = "track"
    /\ posn < limit2
    /\ LookAhead = {}
    /\ rd_lo' = posn
    /\ rd_hi' = LookAheadReadHi
    /\ wr_lo' = -1 /\ wr_hi' = -1 /\ cp_src' = -1
    /\ last' = "lost"
    /\ pc' = "acquire"
    /\ UNCHANGED <<raw_buf, src_buf, raw_siz, oob, posn, offset, sync, resync_siz,
                   copied, nosync, resync, dil_rd_hi>>
    /\ UNCHANGED <<ilVars, sqVars, ddVars>>

\* Line 172, no room for another frame: tracking ends.
TrackEnd ==
    /\ pc = "track"
    /\ posn >= limit2
    /\ rd_lo' = -1 /\ rd_hi' = -1 /\ wr_lo' = -1 /\ wr_hi' = -1 /\ cp_src' = -1
    /\ last' = "trackend"
    /\ pc' = "acquire"
    /\ UNCHANGED <<raw_buf, src_buf, raw_siz, oob, posn, offset, sync, resync_siz,
                   copied, nosync, resync, dil_rd_hi>>
    /\ UNCHANGED <<ilVars, sqVars, ddVars>>

\* Lines 160 and 202: the outer loop ends and Resync_Stream returns.
ResyncExit ==
    /\ pc = "acquire"
    /\ posn >= limit1
    /\ rd_lo' = -1 /\ rd_hi' = -1 /\ wr_lo' = -1 /\ wr_hi' = -1 /\ cp_src' = -1
    /\ last' = "return"
    /\ pc' = "resynced"
    /\ UNCHANGED <<raw_buf, src_buf, raw_siz, oob, posn, offset, sync, resync_siz,
                   copied, nosync, resync, dil_rd_hi>>
    /\ UNCHANGED <<ilVars, sqVars, ddVars>>

----------------------------------------------------------------------------
(* De_Interleave after Resync_Stream has returned.                         *)

\* DeIntlvSrc with the per-branch delay in place of the base length.
DeIntlvSrcDelay(i) == i + (i % INTLV_BRANCHES) * INTLV_DELAY

\* DeIntlvSrc with the branch taken by division.
DeIntlvSrcDiv(i) == i + (i \div INTLV_BRANCHES) * INTLV_BASE_LEN

\* Line 232: the index in raw of the symbol that belongs at destination i.
DeIntlvSrc(i) == i + (i % INTLV_BRANCHES) * INTLV_BASE_LEN

\* ResyncOk without the test for a zero length.
ResyncOkNoZero(n, siz) == n < siz

\* Line 221: whether the output buffer is allocated.
ResyncOk(n, siz) == n # 0 /\ n < siz

\* Lines 228-236 on an allocated buffer of n cells, none of them written
\* yet (-1): the cells the loop fills.
DeIntlvLoop(raw, n) ==
    [i \in 0 .. n - 1 |-> IF DeIntlvSrc(i) < n THEN raw[DeIntlvSrc(i)] ELSE -1]

\* The highest index of raw the loop reads (-1: it reads nothing).
DeIntlvReadHi(n) ==
    LET rd == {DeIntlvSrc(i) : i \in {k \in 0 .. n - 1 : DeIntlvSrc(k) < n}}
    IN  IF rd = {} THEN -1 ELSE CHOOSE h \in rd : \A g \in rd : g <= h

\* Lines 221-236.  With the buffer not allocated the loop still runs over
\* 0 .. *resync_siz - 1 and stores through the caller's pointer as it was.
DeInterleave ==
    /\ pc = "resynced"
    /\ IF ResyncOk(resync_siz, raw_siz)
       THEN /\ resync' = [len |-> resync_siz, cells |-> DeIntlvLoop(raw_buf, resync_siz)]
            /\ pc' = "done"
       ELSE /\ resync' = resync
            /\ pc' = IF resync_siz > 0 THEN "wild_store" ELSE "failed"
    /\ dil_rd_hi' = DeIntlvReadHi(resync_siz)
    /\ last' = "deinterleave"
    /\ UNCHANGED <<raw_buf, src_buf, raw_siz, oob, posn, offset, sync, resync_siz,
                   rd_lo, rd_hi, wr_lo, wr_hi, cp_src, copied, nosync>>
    /\ UNCHANGED <<ilVars, sqVars, ddVars>>

Next ==
    \/ Acquire
    \/ Track
    \/ TrackLost
    \/ TrackEnd
    \/ ResyncExit
    \/ DeInterleave

Spec == Init /\ [][Next]_vars

----------------------------------------------------------------------------
(* The de-interleave loop at the real geometry.  The loop of lines 228-236 *)
(* visits every destination below *resync_siz; the model follows it over   *)
(* windows of consecutive destinations: at the start of the buffer, at the *)
(* base length and at the end.                                             *)

\* The test buffer: original symbol i, and the forward interleave that puts
\* it at index i + (i mod B) * L of the interleaved buffer.
OrigSym(i) == (i + 37 * (i \div INTLV_BASE_LEN) + (i \div 256)) % 256

Forward(i) == i + (i % INTLV_BRANCHES) * INTLV_BASE_LEN

\* The interleaved buffer at index s: the original symbol the forward
\* interleave put there, or -1 where it put none.
Interleaved(s) ==
    LET pre == {i \in {s - k * INTLV_BASE_LEN : k \in 0 .. INTLV_BRANCHES - 1} :
                   i >= 0 /\ Forward(i) = s}
    IN  IF pre = {} THEN -1 ELSE OrigSym(CHOOSE i \in pre : TRUE)

\* Resynchronized lengths: multiples of INTLV_DATA_LEN below, just above and
\* at twice the base length, and the full message length.
IlSizes == {INTLV_DATA_LEN, 2 * INTLV_DATA_LEN, INTLV_BASE_LEN + INTLV_DATA_LEN,
            2 * INTLV_BASE_LEN, INTLV_MESG_LEN}

IlStarts(n) == {0, INTLV_BASE_LEN, n - Window}

\* The shortest raw buffer Resync_Stream compacts to n symbols: the frames
\* copied, and the frame period tracking stops short of.
RawSizFor(n) == (n \div INTLV_DATA_LEN) * INTLV_SYNCDATA + INTLV_SYNCDATA + 1

\* Resync_Stream has returned with *resync_siz = il_n.
InitIntlv ==
    /\ il_n \in IlSizes
    /\ il_len = -1
    /\ il_i \in {st \in IlStarts(il_n) : 0 <= st /\ st < il_n}
    /\ il_src = -1 /\ il_dst = -1 /\ il_val = -1 /\ il_rd = -1
    /\ il_left = Window
    /\ IdleResync /\ IdleIsqrt /\ IdleDiff

\* Lines 221-222: the output buffer is allocated.
IntlvAlloc ==
    /\ il_len = -1
    /\ ResyncOk(il_n, RawSizFor(il_n))
    /\ il_len' = il_n
    /\ UNCHANGED <<il_n, il_i, il_src, il_dst, il_val, il_rd, il_left>>
    /\ UNCHANGED <<rsVars, sqVars, ddVars>>

\* Lines 232-235 for resync_buf_idx = il_i, then the loop's increment.
IntlvStep ==
    /\ il_len # -1
    /\ il_left > 0
    /\ il_i < il_n
    /\ il_src' = DeIntlvSrc(il_i)
    /\ il_dst' = IF DeIntlvSrc(il_i) < il_n THEN il_i ELSE -1
    /\ il_rd' = IF DeIntlvSrc(il_i) < il_n THEN DeIntlvSrc(il_i) ELSE -1
    /\ il_val' = IF DeIntlvSrc(il_i) < il_n THEN Interleaved(DeIntlvSrc(il_i)) ELSE -1
    /\ il_i' = il_i + 1
    /\ il_left' = il_left - 1
    /\ UNCHANGED <<il_n, il_len>>
    /\ UNCHANGED <<rsVars, sqVars, ddVars>>

NextIntlv ==
    \/ IntlvAlloc
    \/ IntlvStep

SpecIntlv == InitIntlv /\ [][NextIntlv]_vars

----------------------------------------------------------------------------
(* Make_Isqrt_Table, Isqrt.                                                *)

\* Line 250: isqrt_table[idx] = (uint8_t)sqrt((double)idx).
\* sqrt() truncated: the r with r * r <= idx < (r + 1) * (r + 1), found by
\* bisection between lo (lo * lo <= idx) and hi (idx < hi * hi).
RECURSIVE FloorSqrt(_, _, _)
FloorSqrt(idx, lo, hi) ==
    IF hi - lo <= 1 THEN lo
    ELSE LET mid == (lo + hi) \div 2
         IN  IF mid * mid <= idx THEN FloorSqrt(idx, mid, hi)
             ELSE FloorSqrt(idx, lo, mid)

IsqrtTable(idx) == ToUint8(FloorSqrt(idx, 0, 256))

\* Lines 259-264; the table entry is cast to int8_t, and the int8_t return
\* type converts the negated value once more.
Isqrt(a) ==
    IF a >= 0
    THEN ToInt8(IsqrtTable(a))
    ELSE ToInt8(-ToInt8(IsqrtTable(-a)))

InitIsqrt ==
    /\ sq_a \in -ISQRT_MAX .. ISQRT_MAX
    /\ sq_r = 0
    /\ sq_pc = "call"
    /\ IdleResync /\ IdleIntlv /\ IdleDiff

IsqrtCall ==
    /\ sq_pc = "call"
    /\ sq_r' = Isqrt(sq_a)
    /\ sq_pc' = "ret"
    /\ UNCHANGED sq_a
    /\ UNCHANGED <<rsVars, ilVars, ddVars>>

NextIsqrt == IsqrtCall

SpecIsqrt == InitIsqrt /\ [][NextIsqrt]_vars

----------------------------------------------------------------------------
(* De_Diffcode.  Buffers are sequences: buff[idx] of the code is buff[idx  *)
(* + 1] here.                                                              *)

\* Soft symbols the streams are made of (int8_t values).
DiffSyms == {-128, -7, 100}

Abs(x) == IF x < 0 THEN -x ELSE x

\* DiffLoop keeping in tmp1, tmp2 the pair as decoded, not as read.
RECURSIVE DiffLoopDecoded(_, _, _, _, _, _)
DiffLoopDecoded(buff, idx, length, tmp1, tmp2, mx) ==
    IF idx > length
    THEN [buff |-> buff, prev_i |-> buff[idx - 1], prev_q |-> buff[idx], maxidx |-> mx]
    ELSE DiffLoopDecoded(
             [buff EXCEPT ![idx + 1] = Isqrt(buff[idx + 1] * tmp1),
                          ![idx + 2] = Isqrt((-buff[idx + 2]) * tmp2)],
             idx + 2, length,
             Isqrt(buff[idx + 1] * tmp1), Isqrt((-buff[idx + 2]) * tmp2),
             Max(mx, Max(Abs(buff[idx + 1] * tmp1), Abs(buff[idx + 2] * tmp2))))

\* Lines 287-297 from idx on; the result holds the buffer and tmp1, tmp2 as
\* they stand at line 300, and the highest table index read.
RECURSIVE DiffLoop(_, _, _, _, _, _)
DiffLoop(buff, idx, length, tmp1, tmp2, mx) ==
    IF idx > length
    THEN [buff |-> buff, prev_i |-> tmp1, prev_q |-> tmp2, maxidx |-> mx]
    ELSE DiffLoop([buff EXCEPT ![idx + 1] = Isqrt(buff[idx + 1] * tmp1),
                               ![idx + 2] = Isqrt((-buff[idx + 2]) * tmp2)],
                  idx + 2, length, buff[idx + 1], buff[idx + 2],
                  Max(mx, Max(Abs(buff[idx + 1] * tmp1), Abs(buff[idx + 2] * tmp2))))

\* De_Diffcode saving the decoded last pair as the carried state.
De_DiffcodeKeepDecoded(buff, length, pi, pq) ==
    LET r == DiffLoop([buff EXCEPT ![1] = Isqrt(buff[1] * pi),
                                   ![2] = Isqrt((-buff[2]) * pq)],
                      2, length - 2, buff[1], buff[2],
                      Max(Abs(buff[1] * pi), Abs(buff[2] * pq)))
    IN  [r EXCEPT !.prev_i = r.buff[length - 1], !.prev_q = r.buff[length]]

\* De_Diffcode carrying the sum of its last two raw pairs, unreduced.
De_DiffcodeSumCarried(buff, length, pi, pq) ==
    LET r == DiffLoop([buff EXCEPT ![1] = Isqrt(buff[1] * pi),
                                   ![2] = Isqrt((-buff[2]) * pq)],
                      2, length - 2, buff[1], buff[2],
                      Max(Abs(buff[1] * pi), Abs(buff[2] * pq)))
    IN  IF length < 4 THEN r
        ELSE [r EXCEPT !.prev_i = buff[length - 1] + buff[length - 3],
                       !.prev_q = buff[length] + buff[length - 2]]

\* De_Diffcode(buff, length) entered with the static state (pi, pq).
De_Diffcode(buff, length, pi, pq) ==
    DiffLoop([buff EXCEPT ![1] = Isqrt(buff[1] * pi),
                          ![2] = Isqrt((-buff[2]) * pq)],
             2, length - 2, buff[1], buff[2],
             Max(Abs(buff[1] * pi), Abs(buff[2] * pq)))

\* Carried states an earlier stream may have left behind.
DiffCarried == {<<-128, -128>>, <<100, -7>>}

\* Streams of 1 .. MaxPairs pairs.
DiffStreams == UNION {[1 .. 2 * k -> DiffSyms] : k \in 1 .. MaxPairs}

\* A stream begins either before any call was made (prev_i = prev_q = 0,
\* lines 277-278) or with the state an earlier stream left behind, which is
\* that stream's last raw pair.
InitDiff ==
    /\ dd_stream \in DiffStreams
    /\ dd_fresh \in BOOLEAN
    /\ dd_start \in IF dd_fresh THEN {<<0, 0>>} ELSE DiffCarried
    /\ prev_i = dd_start[1]
    /\ prev_q = dd_start[2]
    /\ dd_pos = 0 /\ dd_out = <<>> /\ dd_calls = 0 /\ dd_maxidx = 0
    /\ IdleResync /\ IdleIntlv /\ IdleIsqrt

\* One call De_Diffcode(buff, len) on the next len symbols of the stream.
DiffCall ==
    /\ dd_pos < Len(dd_stream)
    /\ \E pairs \in 1 .. MaxPairs :
          /\ dd_pos + 2 * pairs <= Len(dd_stream)
          /\ LET r == De_Diffcode(SubSeq(dd_stream, dd_pos + 1, dd_pos + 2 * pairs),
                                  2 * pairs, prev_i, prev_q)
             IN  /\ dd_out' = dd_out \o r.buff
                 /\ prev_i' = r.prev_i
                 /\ prev_q' = r.prev_q
                 /\ dd_maxidx' = Max(dd_maxidx, r.maxidx)
          /\ dd_pos' = dd_pos + 2 * pairs
    /\ dd_calls' = dd_calls + 1
    /\ UNCHANGED <<dd_stream, dd_start, dd_fresh>>
    /\ UNCHANGED <<rsVars, ilVars, sqVars>>

NextDiff == DiffCall

SpecDiff == InitDiff /\ [][NextDiff]_vars

----------------------------------------------------------------------------
(* Properties.                                                             *)

\* Number of whole frame periods in the raw buffer.
FramesIn(siz) == siz \div INTLV_SYNCDATA

\* The raw buffer is N repeats of [sync word][72 data symbols], no noise.
NoiseFree ==
    /\ raw_siz % INTLV_SYNCDATA = 0
    /\ \A k \in 0 .. FramesIn(raw_siz) - 1 :
          Byte_at_Offset(k * INTLV_SYNCDATA) = SYNC_WORD

\* Index in the raw stream of the j-th payload symbol when frames start at 0.
PayloadIdx(j) ==
    (j \div INTLV_DATA_LEN) * INTLV_SYNCDATA + SYNC_BYTE_BITS + (j % INTLV_DATA_LEN)

\* C1: on a noise-free buffer of N frames (raw length 80 * N) Resync_Stream
\* reports a length of N * 72 and the compacted output is the N payloads in
\* stream order, the last frame included.
C1_AllFramesRecovered ==
    (pc = "resynced" /\ NoiseFree) =>
        /\ resync_siz = FramesIn(raw_siz) * INTLV_DATA_LEN
        /\ \A j \in 0 .. FramesIn(raw_siz) * INTLV_DATA_LEN - 1 :
              raw_buf[j] = src_buf[PayloadIdx(j)]

\* C2: the resynchronized length is always a multiple of 72 and either 0 or
\* strictly less than the raw length; while the loops run it is 72 times the
\* number of frames copied, and 80 times that number is at most the cursor,
\* which stays below the raw length.
C2_ResyncLength ==
    /\ resync_siz % INTLV_DATA_LEN = 0
    /\ resync_siz = 0 \/ resync_siz < raw_siz
    /\ (resync_siz \div INTLV_DATA_LEN) * INTLV_SYNCDATA <= posn
    /\ (raw_siz > 0) => posn < raw_siz

C2_Witness ==
    /\ pc = "resynced"
    /\ resync_siz >= 5 * INTLV_DATA_LEN
    /\ posn > (resync_siz \div INTLV_DATA_LEN) * INTLV_SYNCDATA

\* Some offset p has equal hard-decision bytes at p, p + 80, p + 160,
\* p + 240 and p + 320, all inside the buffer.
HasTrain ==
    \E p \in 0 .. raw_siz - SYNCD_BUF_MARGIN - SYNC_BYTE_BITS :
        \A j \in 1 .. SYNCD_DEPTH :
            Byte_at_Offset(p + j * INTLV_SYNCDATA) = Byte_at_Offset(p)

\* C3: with no sync train anywhere in the buffer Resync_Stream reports a
\* zero length and leaves the caller's buffer as it was.
C3_NoTrainNoOutput ==
    (pc = "resynced" /\ ~HasTrain) => (resync_siz = 0 /\ raw_buf = src_buf)

\* C4: every write into the caller's buffer covers only indices in
\* 0 .. raw_siz - 1.
C4_WritesInBounds ==
    (wr_lo # -1) => (0 <= wr_lo /\ wr_lo <= wr_hi /\ wr_hi < raw_siz)

C4_Witness ==
    /\ last = "copy"
    /\ wr_lo >= INTLV_DATA_LEN
    /\ posn >= limit2

\* C8: when Resync_Stream reported a zero length or a length not below the
\* raw length, De_Interleave allocates nothing, stores nothing through the
\* output pointer and leaves the pointer as it was.
C8_FailureGuard ==
    (last = "deinterleave" /\ (resync_siz = 0 \/ resync_siz >= raw_siz)) =>
        (resync = NullBuf /\ pc = "failed")

C8_Witness ==
    /\ last = "deinterleave"
    /\ resync_siz = 0
    /\ raw_siz > SYNCD_BLOCK_SIZ
    /\ pc = "failed"

\* C10: the sync locator runs only with a full 400-symbol block ahead of the
\* cursor, and every symbol Resync_Stream and Find_Sync read lies inside the
\* private copy.
C10_ReadsInBounds ==
    /\ (last \in {"found", "notfound"}) => (rd_lo + SYNCD_BLOCK_SIZ <= raw_siz)
    /\ (rd_lo # -1) => (0 <= rd_lo /\ rd_hi < raw_siz)

\* C5: decoding a stream in two sequential calls, split at any even index,
\* gives the same output buffer and the same carried state as decoding it
\* in one call started from the same carried state.
C5_SplitEqualsWhole ==
    (dd_calls = 2) =>
        LET whole == De_Diffcode(SubSeq(dd_stream, 1, dd_pos), dd_pos,
                                 dd_start[1], dd_start[2])
        IN  /\ dd_out = whole.buff
            /\ prev_i = whole.prev_i
            /\ prev_q = whole.prev_q

C5_Witness ==
    /\ dd_calls = 2
    /\ dd_pos = 2 * MaxPairs
    /\ ~dd_fresh
    /\ dd_out[3] # 0

\* The truncated root of a non-negative integer, by its definition.
TruncRoot(n) == CHOOSE r \in 0 .. n : r * r <= n /\ n < (r + 1) * (r + 1)

Sgn(a) == IF a > 0 THEN 1 ELSE IF a < 0 THEN -1 ELSE 0

\* C6: for every a with |a| <= 16384 Isqrt(a) is the sign-preserving
\* truncated root sgn(a) * floor(sqrt(|a|)), so Isqrt(16384) = 128, and Isqrt
\* is non-decreasing over 0 .. 16384.
C6_TruncatedRoot ==
    (sq_pc = "ret") =>
        /\ sq_r = Sgn(sq_a) * TruncRoot(Abs(sq_a))
        /\ (sq_a >= 1) => (Isqrt(sq_a - 1) <= sq_r)

\* The destination the last iteration of the de-interleave loop handled.
IlLast == il_i - 1

\* C7: forward interleave then de-interleave of a buffer of length B * L
\* recovers the original buffer at every index.
C7_RoundTrip ==
    (il_n = INTLV_MESG_LEN /\ il_src # -1) =>
        (il_dst = IlLast /\ il_val = OrigSym(IlLast))

\* C7 as the code has it: the original symbol is recovered at every index
\* whose interleaved position lies inside the buffer of length B * L, and
\* the other destinations are left unwritten.
C7_RoundTripInside ==
    (il_n = INTLV_MESG_LEN /\ il_src # -1) =>
        IF Forward(IlLast) < INTLV_MESG_LEN
        THEN il_dst = IlLast /\ il_val = OrigSym(IlLast)
        ELSE il_dst = -1 /\ il_val = -1

C7_Witness ==
    /\ il_n = INTLV_MESG_LEN
    /\ il_dst = IlLast
    /\ il_dst >= INTLV_BASE_LEN
    /\ il_src >= il_dst + INTLV_BASE_LEN
    /\ il_val = OrigSym(il_dst)

\* C9: on a resynchronized length n the output buffer has length n; a
\* destination i whose source s = i + (i mod 36) * 73728 is below n receives
\* the symbol at s, read at an index below n; a destination whose source is
\* n or more is not written and nothing is read for it.
C9_Mapping ==
    /\ (il_len # -1) => (il_len = il_n)
    /\ (il_src # -1) =>
          LET s == IlLast + (IlLast % 36) * 73728
          IN  IF s < il_n
              THEN /\ il_dst = IlLast
                   /\ il_rd = s
                   /\ il_rd < il_n
                   /\ il_val = Interleaved(s)
              ELSE il_dst = -1 /\ il_rd = -1 /\ il_val = -1

C9_Witness ==
    /\ il_n = INTLV_BASE_LEN + INTLV_DATA_LEN
    /\ il_len = il_n
    /\ il_dst = IlLast
    /\ il_rd = il_dst + INTLV_BASE_LEN

\* The hard decision on the symbol at p: bit 1 iff the symbol is below 128.
HardOne(p) == SrcAt(p) < 128

\* b is the hard-decision byte at p, least-significant bit first.
IsByteAt(b, p) == \A k \in 0 .. 7 : (Bit(b, k) = 1) <=> HardOne(p + k)

\* The bytes at p and at q are equal.
SameByte(p, q) == \A k \in 0 .. 7 : HardOne(p + k) <=> HardOne(q + k)

\* The start offsets i in [0, block_siz - step * depth) of the block at p
\* whose byte equals the bytes at i + j * step for all j in 1 .. depth.
TrainStarts(p, block_siz, step, depth) ==
    {i \in 0 .. block_siz - step * depth - 1 :
        \A j \in 1 .. depth : SameByte(p + i, p + i + j * step)}

\* C11: Find_Sync returns true exactly when some start offset i in
\* [0, block_siz - step * depth) has its hard-decision byte equal to the
\* bytes at i + j * step for all j in 1 .. depth; on success the reported
\* offset is the smallest such i and the reported sync value is the byte at
\* that offset; on failure the reported offset is 0.
C11_FindSync ==
    (last \in {"found", "notfound"}) =>
        LET starts == TrainStarts(rd_lo, 400, 80, 4)
        IN  /\ (last = "found") <=> (starts # {})
            /\ (last = "found") =>
                  /\ offset \in starts
                  /\ \A i \in starts : offset <= i
                  /\ sync \in 0 .. 255
                  /\ IsByteAt(sync, rd_lo + offset)
            /\ (last = "notfound") => (offset = 0)

C11_Witness ==
    /\ last = "found"
    /\ rd_lo > 0
    /\ offset > 0
    /\ nosync # <<>>

\* The last step appended the 72 symbols that follow the 8-symbol header
\* slot at cursor cp_src, and moved the cursor on by exactly 80.
AppendedFrom(c) ==
    /\ wr_hi = wr_lo + 71
    /\ resync_siz = wr_lo + 72
    /\ \A r \in 0 .. 71 : raw_buf[wr_lo + r] = SrcAt(c + 8 + r)
    /\ posn = c + 80

\* C12: every payload appended in the tracking loop belongs to a confirmed
\* frame period: the 8 symbols immediately preceding the copied payload (the
\* header at the cursor) have a hard-decision byte equal to the acquired
\* sync value, and each append advances the cursor by exactly 80.
C12_HeaderAtCursor ==
    (last = "copy") => (IsByteAt(sync, cp_src) /\ AppendedFrom(cp_src))

\* C12 as the code has it: every payload appended in the tracking loop
\* belongs to a frame period confirmed by the look-ahead: some position
\* cursor + i * 80 with 0 <= i < 128, below raw length - 80, has a byte
\* equal to the acquired sync value (the header at the cursor itself need
\* not); each append advances the cursor by exactly 80.
C12_ConfirmedAhead ==
    (last = "copy") =>
        /\ \E i \in 0 .. 127 :
              /\ cp_src + i * 80 < raw_siz - 80
              /\ IsByteAt(sync, cp_src + i * 80)
        /\ AppendedFrom(cp_src)

C12_Witness ==
    /\ last = "copy"
    /\ ~IsByteAt(sync, cp_src)
    /\ IsByteAt(sync, cp_src + 80)
    /\ AppendedFrom(cp_src)

\* Five equal hard-decision bytes spaced 80 apart, the first at m, all of
\* them inside the buffer.
FiveTrainAt(m) ==
    /\ m + 4 * 80 + 8 <= raw_siz
    /\ \A j \in 1 .. 4 : SameByte(m, m + j * 80)

\* A train of five starts just past the candidates searched at cursor p,
\* and the 400-symbol block of the retry at p + 240 lies inside the buffer.
TrainJustPast(p, m) ==
    /\ p + 80 <= m /\ m < p + 240
    /\ FiveTrainAt(m)
    /\ p + 240 + 400 <= raw_siz

\* A frame of the train at m was copied.
Acquired(m) ==
    \E k \in 1 .. Len(copied) : \E t \in 0 .. 4 : copied[k] = m + t * 80

\* C13: when Find_Sync fails at cursor p the cursor advances by exactly 240
\* and the search is retried, and a train of five equal bytes spaced 80
\* apart whose first marker lies in [p + 80, p + 240), all markers well
\* inside the buffer, is not missed: when Resync_Stream returns it has been
\* acquired and the result length is non-zero.
C13_TrainNotMissed ==
    /\ (last = "notfound") => (posn = rd_lo + 240 /\ pc = "acquire")
    /\ (pc = "resynced") =>
          \A k \in 1 .. Len(nosync) :
              \A m \in nosync[k] + 80 .. nosync[k] + 239 :
                  TrainJustPast(nosync[k], m) => (Acquired(m) /\ resync_siz > 0)

\* Some position c + i * 80 with 0 <= i < 128, below raw length - 80, has a
\* hard-decision byte equal to the acquired sync value.
ConfirmedAhead(c) ==
    \E i \in 0 .. 127 :
        /\ c + i * 80 < raw_siz - 80
        /\ IsByteAt(sync, c + i * 80)

\* One step of Resync_Stream seen from the tracking loop; `ends` tells
\* whether the outer loop ends at the cursor tracking was left at.
TrackingStep(ends) ==
    /\ (pc = "track" /\ posn < raw_siz - 80) =>
          /\ (last' = "copy") <=> ConfirmedAhead(posn)
          /\ (last' = "copy") =>
                (cp_src' = posn /\ resync_siz' = resync_siz + 72 /\ pc' = "track")
          /\ (~ConfirmedAhead(posn)) =>
                /\ last' = "lost" /\ pc' = "acquire"
                /\ posn' = posn /\ resync_siz' = resync_siz /\ sync' = sync
    /\ (pc = "track") => (sync' = sync)
    /\ (last = "lost") =>
          IF ends
          THEN last' = "return" /\ posn' = posn /\ resync_siz' = resync_siz
          ELSE last' \in {"found", "notfound"} /\ rd_lo' = posn

\* C14: at tracking cursor c a frame is appended if and only if some
\* position c + i * 80 with 0 <= i < 128 and c + i * 80 < raw length - 80
\* has a byte equal to the acquired sync value; otherwise tracking exits with
\* the cursor, the output length and the sync value unchanged, and the next
\* step is coarse acquisition from exactly cursor c, or termination if fewer
\* than 320 symbols remain.  The sync value never changes while tracking.
C14_TrackingFallback == [][TrackingStep(raw_siz - posn < 320)]_vars

\* C14 as the code has it: as above, with termination if 320 symbols or
\* fewer remain.
C14_TrackingFallbackAtMost == [][TrackingStep(raw_siz - posn <= 320)]_vars

C14_Witness ==
    /\ last \in {"found", "notfound"}
    /\ copied # <<>>
    /\ rd_lo = copied[Len(copied)] + 80
    /\ resync_siz = 72 * Len(copied)

\* One pass of the outer loop advances the cursor: a failed search by 240;
\* a successful one is followed at once by the copy of the frame at the
\* acquired offset, which advances it by 80.
OuterAdvances ==
    /\ (last' = "notfound") => (posn' = posn + 240)
    /\ (last' = "found") => (posn' = posn + offset' /\ offset' >= 0)
    /\ (last = "found") => (last' = "copy" /\ cp_src' = posn /\ posn' = posn + 80)
    /\ posn' >= posn
    /\ (pc' = "resynced") => (posn' >= raw_siz - 320)

\* A measure of the work Resync_Stream has left: the symbols ahead of the
\* cursor, and within one cursor position the place in the loops (tracking
\* after a copy, before the outer loop's test, before the first look-ahead
\* after an acquisition).
Rank ==
    3 * (raw_siz - posn)
    + (IF pc = "track" THEN (IF last = "found" THEN 0 ELSE 2)
       ELSE IF pc = "acquire" THEN 1 ELSE 0)

\* C15: Resync_Stream terminates on every finite raw buffer: every pass of
\* the outer loop strictly advances the cursor (by 240 on a failed search,
\* by at least 80 after a successful one, the frame at the acquired offset
\* being always confirmed and copied), so that every step of Resync_Stream
\* strictly lowers a non-negative measure of the work left, and it returns
\* with the cursor at raw length - 320 or beyond.
C15_Terminates ==
    [][(pc \in {"acquire", "track"}) =>
          (OuterAdvances /\ Rank' < Rank /\ Rank' >= 0)]_vars

C15_Witness ==
    /\ pc = "resynced"
    /\ posn >= raw_siz - 320
    /\ Len(nosync) >= 1
    /\ Len(copied) >= 5
    /\ nosync[1] < copied[1]

\* The I and Q operands pair k of the call that starts at symbol `from` of
\* the stream is decoded against: the carried state for k = 0, the raw
\* input pair k - 1 after that.
PrevI(from, k) == IF k = 0 THEN prev_i ELSE dd_stream[from + 2 * k - 1]

PrevQ(from, k) == IF k = 0 THEN prev_q ELSE dd_stream[from + 2 * k]

\* C16: for a buffer of even length >= 2, output pair k of a call is
\* (Isqrt(I_k * I_prev), Isqrt(-Q_k * Q_prev)) where (I_prev, Q_prev) is the
\* carried state for k = 0 and the raw input pair k - 1 for k >= 1; after
\* the call the carried state is the last raw input pair of that call, and
\* before the first call it is (0, 0).
C16_OperandSelection ==
    [][/\ (dd_fresh /\ dd_calls = 0) => (prev_i = 0 /\ prev_q = 0)
       /\ (dd_calls' = dd_calls + 1) =>
             /\ dd_pos' >= dd_pos + 2
             /\ (dd_pos' - dd_pos) % 2 = 0
             /\ Len(dd_out') = dd_pos'
             /\ \A k \in 0 .. ((dd_pos' - dd_pos) \div 2) - 1 :
                   /\ dd_out'[dd_pos + 2 * k + 1] =
                         Isqrt(dd_stream[dd_pos + 2 * k + 1] * PrevI(dd_pos, k))
                   /\ dd_out'[dd_pos + 2 * k + 2] =
                         Isqrt((-dd_stream[dd_pos + 2 * k + 2]) * PrevQ(dd_pos, k))
             /\ prev_i' = dd_stream[dd_pos' - 1]
             /\ prev_q' = dd_stream[dd_pos']]_vars

C16_Witness ==
    /\ dd_calls = 2
    /\ dd_pos = 2 * MaxPairs
    /\ dd_fresh
    /\ dd_out[1] = 0 /\ dd_out[2] = 0
    /\ dd_out[2 * MaxPairs - 1] # dd_stream[2 * MaxPairs - 1]
    /\ prev_i = dd_stream[2 * MaxPairs - 1]
    /\ prev_q = dd_stream[2 * MaxPairs]

\* C17: across any sequence of De_Diffcode calls on buffers of 8-bit signed
\* symbols the carried state (prev_i, prev_q) stays within [-128, 127], and
\* every index used to read the square-root table (a for a >= 0, -a for
\* a < 0) lies in [0, 16384], inside the table of 16385 entries.
C17_StateAndIndexRange ==
    /\ prev_i \in -128 .. 127
    /\ prev_q \in -128 .. 127
    /\ dd_maxidx \in 0 .. 16384
    /\ dd_maxidx < ISQRT_MAX + 1

C17_Witness ==
    /\ dd_calls >= 2
    /\ dd_maxidx = 16384
    /\ prev_i = -128
    /\ prev_q = 100

\* The frames copied, at cursors cs, lie inside the source at strictly
\* increasing cursors at least 80 apart, and the first n symbols of buf are
\* their payloads [c + 8, c + 80) in that order.
PayloadsInOrder(cs, buf, n) ==
    /\ n = 72 * Len(cs)
    /\ \A k \in 1 .. Len(cs) : 0 <= cs[k] /\ cs[k] + 80 <= raw_siz
    /\ \A k \in 1 .. Len(cs) - 1 : cs[k + 1] >= cs[k] + 80
    /\ \A k \in 1 .. Len(cs) : \A r \in 0 .. 71 :
          buf[72 * (k - 1) + r] = src_buf[cs[k] + 8 + r]

\* C18: throughout Resync_Stream the read cursor never decreases and the
\* write cursor never passes it (output length <= cursor at every step);
\* the payloads appended come from source segments [c + 8, c + 80) at
\* strictly increasing cursors c at least 80 apart, so that no source symbol
\* is copied twice and the output preserves stream order.
C18_CursorOrder ==
    [][/\ posn' >= posn
       /\ resync_siz <= posn
       /\ resync_siz' <= posn'
       /\ (last' = "copy") => (copied' = Append(copied, posn) /\ wr_lo' = resync_siz)
       /\ PayloadsInOrder(copied', raw_buf', resync_siz')]_vars

C18_Witness ==
    /\ last = "copy"
    /\ Len(copied) >= 6
    /\ sync = SYNC_WORD
    /\ ~IsByteAt(SYNC_WORD, copied[1])
    /\ resync_siz = 72 * Len(copied)
    /\ resync_siz < posn

============================================================================
